---- MODULE Spec2Model ----
(***************************************************************************)
(* Token lifecycle of the Tyro proxy: the TokenStore (value behind a       *)
(* sync.RWMutex, the Refresh and Initialized channels), the Refresher      *)
(* goroutine that acquires tokens and schedules the next acquisition, and  *)
(* the HTTP handlers that obtain a token through getTokenOrError and ask   *)
(* for a refresh when the upstream API answers 401.                        *)
(*                                                                         *)
(* Time is counted in seconds and advances in steps of TickSeconds.        *)
(***************************************************************************)
EXTENDS Integers, Sequences, FiniteSets

(***************************************************************************)
(* Bounds of the model.                                                    *)
(***************************************************************************)
NumHandlers == 2

TickSeconds == 5

NotifiedCap == 2

MaxNewLimit == 2

MaxWindows == 3

MaxTotal == 3

MaxPathLen == 2

Handlers == 1..NumHandlers

(***************************************************************************)
(* Constants of the program.                                               *)
(***************************************************************************)
UninitialedTokenValue == "uninitialized"

TokenRefreshBuffer == 5

MinimumTokenTTL == 10

DefaultRefreshTime == 10

InitializedCap == 1

AccessorTimeout == 30

StatusUnauthorized == "401 Unauthorized"

StatusOther == "any other status"

StatusInternalServerError == "500 Internal Server Error"

StatusBadRequest == "400 Bad Request"

StatusNotFound == "404 Not Found"

StatusOK == "200 OK"

NothingWritten == "nothing written"

(***************************************************************************)
(* Error values.  NilErr is Go's nil error.                                *)
(***************************************************************************)
NilErr == "nil"

TokenGenerationError == "Token generation error."

TimeoutError == "Unable to get token from TokenStore"

RequestError == "http.NewRequest failed"

TransportError == "client.Do failed"

AuthenticationError == "Unable to authenticate to token generator"

DecodeError == "json decode failed"

TTLTooShortError == "Token has a expire_in that is too small."

(***************************************************************************)
(* What the authorization endpoint can answer to one acquisition.  The     *)
(* access token is any string the server chooses, the empty string and     *)
(* the string "uninitialized" included.                                    *)
(***************************************************************************)
Tokens == {"", UninitialedTokenValue, "A1", "A2"}

ExpiresInValues == {MinimumTokenTTL - 1, MinimumTokenTTL, MinimumTokenTTL + TokenRefreshBuffer}

FailureKinds == {"badRequest", "transport", "status", "decode"}

Responses ==
    {[kind |-> k, access_token |-> "", expires_in |-> 0] : k \in FailureKinds}
    \cup
    {[kind |-> "ok", access_token |-> t, expires_in |-> e] :
        t \in Tokens, e \in ExpiresInValues}

NoResponse == [kind |-> "none", access_token |-> "", expires_in |-> 0]

UpstreamStatuses == {StatusUnauthorized, StatusOther}

Min(a, b) == IF a < b THEN a ELSE b

Max(a, b) == IF a > b THEN a ELSE b

VARIABLES
    value,          \* TokenStore.value
    lockHeld,       \* TokenStore.lock is held by a writer
    initialized,    \* number of notifications buffered in TokenStore.Initialized
    closed,         \* TokenStore.Refresh has been closed
    schedPc,        \* position of the Refresher goroutine
    toc,            \* seconds until the channel held in toc fires
    resp,           \* the endpoint's answer to the last acquisition
    res,            \* argument of set and return values of the last refresh
    trigger,        \* what started the last acquisition
    preempted,      \* the last acquisition was started with a countdown pending
    valueAtStart,   \* value stored when the last acquisition began
    notified,       \* number of sends set has made on Initialized (saturating)
    setCalled,      \* some set call has completed
    firstSet,       \* history: what the first set call stored ("off": not recorded)
    pc,             \* per handler: position in the handler
    token,          \* per handler: local variable token
    herr,           \* per handler: local variable err
    waited,         \* per handler: seconds since its time.After was created
    received,       \* per handler: this call received from Initialized
    written,        \* per handler: what this call has written to its ResponseWriter
    config,         \* main: its position, the command line, the environment, the
                    \* flag variables and loglevel.logMessageLevel
    acao,           \* *headerACAO, the last request served and the
                    \* Access-Control-Allow-Origin header of its response
    newItems,       \* newBibsHandler: *newLimit, the upstream records, its position
                    \* and the entries collected and served
    bibCall,        \* statusBibHandler: the request it serves, its position, the
                    \* request it builds for the upstream API and what it answers
    rawCall         \* the /raw/ reverse proxy: its position, what rawRewriter read
                    \* from the store and the header of the request it sends on

coreVars == <<value, lockHeld, initialized, closed, schedPc, toc, resp, res, trigger,
              preempted, valueAtStart, notified, setCalled, firstSet,
              pc, token, herr, waited, received, written>>

sideVars == <<config, acao, newItems, bibCall, rawCall>>

vars == <<coreVars, sideVars>>

storeVars == <<value, lockHeld, initialized, notified, setCalled, firstSet>>

schedVars == <<schedPc, toc, resp, res, trigger, preempted, valueAtStart>>

handlerVars == <<pc, token, herr, waited, received, written>>

\* NewTokenStore that forgets to store the sentinel (Go's zero value).
NewTokenStoreValue_Empty == ""

(***************************************************************************)
(* NewTokenStore: the value a new store holds.                             *)
(***************************************************************************)
NewTokenStoreValue == UninitialedTokenValue

\* Get without the check for the empty value.
Get_NeverFails(v) == [token |-> v, err |-> NilErr]

(***************************************************************************)
(* TokenStore.Get, as a function of the stored value.  The caller needs    *)
(* the read lock: every use is guarded by ~lockHeld.                       *)
(***************************************************************************)
Get(v) ==
    IF v = ""
    THEN [token |-> "", err |-> TokenGenerationError]
    ELSE [token |-> v, err |-> NilErr]

(***************************************************************************)
(* The state of the store, read off the stored value.                      *)
(***************************************************************************)
TokenState(v) ==
    IF v = "" THEN "Failed"
    ELSE IF v = UninitialedTokenValue THEN "Uninitialized"
    ELSE "Valid"

(***************************************************************************)
(* TokenStore.refresh without its set call: the argument of set and the    *)
(* two return values, from the endpoint's answer.                          *)
(***************************************************************************)
RefreshResult(r) ==
    CASE r.kind = "badRequest" -> [nt |-> "", refreshIn |-> 0, err |-> RequestError]
      [] r.kind = "transport"  -> [nt |-> "", refreshIn |-> 0, err |-> TransportError]
      [] r.kind = "status"     -> [nt |-> "", refreshIn |-> 0, err |-> AuthenticationError]
      [] r.kind = "decode"     -> [nt |-> "", refreshIn |-> 0, err |-> DecodeError]
      [] OTHER ->
            IF r.expires_in < MinimumTokenTTL
            THEN [nt |-> "", refreshIn |-> 0, err |-> TTLTooShortError]
            ELSE [nt |-> r.access_token, refreshIn |-> r.expires_in, err |-> NilErr]

\* runRefreshSetUpNext that keeps the refreshIn of a failed refresh.
FutureTime_NoDefault(refreshIn, err) == refreshIn - TokenRefreshBuffer

\* runRefreshSetUpNext that schedules the acquisition at the expiry of the token.
FutureTime_AtExpiry(refreshIn, err) ==
    IF err # NilErr THEN DefaultRefreshTime ELSE refreshIn

(***************************************************************************)
(* runRefreshSetUpNext: seconds until the next scheduled acquisition.      *)
(***************************************************************************)
FutureTime(refreshIn, err) ==
    LET r == IF err # NilErr THEN DefaultRefreshTime + TokenRefreshBuffer ELSE refreshIn
    IN  r - TokenRefreshBuffer

(***************************************************************************)
(* Configuration: the flag package and the environment.                    *)
(***************************************************************************)
FlagNames == {"loglevel", "key", "newlimit"}

NotSet == "not set"

Arguments == {"trace", "8"}

Numerals == {"8", "16"}

LogLevels == {"error", "warn", "info", "debug", "trace"}

\* The default each flag is declared with.
FlagDefault(f) ==
    CASE f = "loglevel" -> "warn"
      [] f = "newlimit" -> "16"
      [] OTHER -> ""

\* flag.Value.Set: the Int flag takes numerals only, a String flag anything.
FlagAccepts(f, v) == f = "newlimit" => v \in Numerals

\* loglevel.ParseLogLevel.
ParseLogLevel(logLevel) == IF logLevel \in LogLevels THEN logLevel ELSE "trace"

\* The value an option has for the running program.
EffectiveOption(f) ==
    IF f = "loglevel" THEN config.logMessageLevel ELSE config.flagValue[f]

\* What an argument given for an option means for the running program.
MeaningOf(f, v) == IF f = "loglevel" THEN ParseLogLevel(v) ELSE v

\* main as the process starts it, with command line c and environment e.
ConfigStart(c, e) ==
    [mainPc |-> "start",
     commandLine |-> c,
     environment |-> e,
     flagValue |-> [f \in FlagNames |-> FlagDefault(f)],
     logMessageLevel |-> "error"]

\* The configuration steps of main are not part of the specification.
ConfigNotModelled == [mainPc |-> "not modelled"]

(***************************************************************************)
(* The Access-Control-Allow-Origin header.                                 *)
(***************************************************************************)
NoHeader == "no header"

NoRequest == "no request"

DefaultACAOHeader == <<"*">>

Paths == {"/", "/status/", "/status/item/", "/status/bib/", "/new", "/raw/"}

Origins == {"", "http://a", "http://c"}

ConfigEntries == {"*", "", "http://a", " http://a", "http://b"}

HeaderConfigs ==
    {<<e>> : e \in ConfigEntries} \cup {<<e, f>> : e \in ConfigEntries, f \in ConfigEntries}

\* strings.TrimSpace on the entries of the model.
TrimSpace(e) == IF e = " http://a" THEN "http://a" ELSE e

\* setACAOHeader that compares the configured origins as they were written.
setACAOHeader_NoTrim(headerConfig, origin) ==
    IF headerConfig = <<"*">>
    THEN "*"
    ELSE IF \E i \in 1..Len(headerConfig) : headerConfig[i] # "" /\ headerConfig[i] = origin
         THEN origin
         ELSE NoHeader

\* setACAOHeader: the header it leaves on the response.
setACAOHeader(headerConfig, origin) ==
    IF headerConfig = <<"*">>
    THEN "*"
    ELSE IF \E i \in 1..Len(headerConfig) :
                TrimSpace(headerConfig[i]) # "" /\ TrimSpace(headerConfig[i]) = origin
         THEN origin
         ELSE NoHeader

\* homeHandler that sets the header like the status handlers.
homeHandler_SetsACAO(headerConfig, origin) == setACAOHeader(headerConfig, origin)

\* The handlers, as the Access-Control-Allow-Origin header they set.
homeHandler(headerConfig, origin) == NoHeader

statusHandler(headerConfig, origin) == NoHeader

statusItemHandler(headerConfig, origin) == setACAOHeader(headerConfig, origin)

statusBibHandler(headerConfig, origin) == setACAOHeader(headerConfig, origin)

newBibsHandler(headerConfig, origin) == setACAOHeader(headerConfig, origin)

\* rawRewriter changes the proxied request and sets nothing on the response.
rawRewriter(headerConfig, origin) == NoHeader

\* The routes registered in main.
Route(path, headerConfig, origin) ==
    CASE path = "/status/" -> statusHandler(headerConfig, origin)
      [] path = "/status/item/" -> statusItemHandler(headerConfig, origin)
      [] path = "/status/bib/" -> statusBibHandler(headerConfig, origin)
      [] path = "/new" -> newBibsHandler(headerConfig, origin)
      [] path = "/raw/" -> rawRewriter(headerConfig, origin)
      [] OTHER -> homeHandler(headerConfig, origin)

\* The server with header configuration h, before its first request.
AcaoStart(h) ==
    [headerACAO |-> h, reqPath |-> NoRequest, reqOrigin |-> "", respACAO |-> NoHeader]

\* The header of the responses is not part of the specification.
AcaoNotModelled == [reqPath |-> "not modelled"]

(***************************************************************************)
(* The /new endpoint.                                                      *)
(***************************************************************************)
Windows == 1..MaxWindows

\* The records the upstream API returns for window w from offset on.
EntriesFrom(w, offset, total) == {<<w, k>> : k \in (offset + 1)..total}

\* newBibsHandler before a request, with *newLimit n and upstream records c.
NewItemsStart(n, c) ==
    [newLimit |-> n, created |-> c, newPc |-> "idle", date |-> 0,
     alreadyProcessed |-> {}, served |-> {}]

\* The /new endpoint is not part of the specification.
NewItemsNotModelled == [newPc |-> "not modelled"]

(***************************************************************************)
(* statusBibHandler and sierraapi.SendRequestToAPI.                        *)
(***************************************************************************)
PathChars == {"1", "/"}

\* What a request path can hold after "/status/bib/".
BibPathRests == UNION {[1..n -> PathChars] : n \in 0..MaxPathLen}

\* strings.Split(rest, "/")[0].
FirstSegment(rest) ==
    LET slashes == {i \in 1..Len(rest) : rest[i] = "/"}
        end == IF slashes = {}
               THEN Len(rest)
               ELSE (CHOOSE i \in slashes : \A j \in slashes : i <= j) - 1
    IN  SubSeq(rest, 1, end)

\* or.Header.Get("X-Forwarded-For"): empty when the request has no such value.
ForwardedFors == {"", "1.2.3.4"}

RemoteAddrs == {"7.7.7.7:8888", "[::1]:80", ":8888", ":wef:wf:", "7.7.7.7"}

TooManyColonsError == "too many colons in address"

MissingPortError == "missing port in address"

\* net.SplitHostPort on the addresses of the model.
SplitHostPort(hostport) ==
    CASE hostport = "7.7.7.7:8888" -> [host |-> "7.7.7.7", err |-> NilErr]
      [] hostport = "[::1]:80" -> [host |-> "::1", err |-> NilErr]
      [] hostport = ":8888" -> [host |-> "", err |-> NilErr]
      [] hostport = ":wef:wf:" -> [host |-> "", err |-> TooManyColonsError]
      [] OTHER -> [host |-> "", err |-> MissingPortError]

\* The header of a request that http.NewRequest has just built.
NoHeaders == [Authorization |-> <<>>, UserAgent |-> <<>>, XForwardedFor |-> <<>>]

\* SetAuthorizationHeaders that forwards the raw RemoteAddr when it cannot be split.
SetAuthorizationHeaders_RawAddr(nrHeader, or, tk) ==
    LET h == [nrHeader EXCEPT !.Authorization = Append(@, "Bearer " \o tk),
                              !.UserAgent = Append(@, "Tyro")]
        split == SplitHostPort(or.remoteAddr)
    IN  IF or.forwardedFor = ""
        THEN IF split.err # NilErr
             THEN [header |-> [h EXCEPT !.XForwardedFor = Append(@, or.remoteAddr)],
                   err |-> split.err]
             ELSE [header |-> [h EXCEPT !.XForwardedFor = Append(@, split.host)],
                   err |-> NilErr]
        ELSE [header |-> [h EXCEPT !.XForwardedFor = Append(@, or.forwardedFor)],
              err |-> NilErr]

\* sierraapi.SetAuthorizationHeaders: the header of nr afterwards, and the error.
SetAuthorizationHeaders(nrHeader, or, tk) ==
    LET h == [nrHeader EXCEPT !.Authorization = Append(@, "Bearer " \o tk),
                              !.UserAgent = Append(@, "Tyro")]
        split == SplitHostPort(or.remoteAddr)
    IN  IF or.forwardedFor = ""
        THEN IF split.err # NilErr
             THEN [header |-> h, err |-> split.err]
             ELSE [header |-> [h EXCEPT !.XForwardedFor = Append(@, split.host)],
                   err |-> NilErr]
        ELSE [header |-> [h EXCEPT !.XForwardedFor = Append(@, or.forwardedFor)],
              err |-> NilErr]

\* What getTokenOrError can return to a handler.
GetTokenOrErrorResults ==
    {[token |-> t, err |-> NilErr] : t \in Tokens \ {""}}
    \cup {[token |-> "", err |-> TokenGenerationError],
          [token |-> UninitialedTokenValue, err |-> TimeoutError]}

\* What client.Do can give for the request to the upstream API.
UpstreamOutcomes == {TransportError, StatusUnauthorized, StatusNotFound, StatusOK}

\* statusBibHandler as it is called with a request.
BibCallStart(rest, forwardedFor, remoteAddr, apiURLParses) ==
    [bibPc |-> "start",
     rest |-> rest,
     forwardedFor |-> forwardedFor,
     remoteAddr |-> remoteAddr,
     apiURLParses |-> apiURLParses,
     token |-> "",
     err |-> NilErr,
     nrHeader |-> NoHeaders,
     setErr |-> NilErr,
     status |-> NothingWritten,
     upstreamRequests |-> 0]

\* The run of statusBibHandler is not part of the specification.
BibCallNotModelled == [bibPc |-> "not modelled"]

\* The run of the /raw/ reverse proxy is not part of the specification.
RawCallNotModelled == [rawPc |-> "not modelled"]

\* The /raw/ reverse proxy between two requests.
RawCallIdle ==
    [rawPc |-> "idle",
     token |-> "",
     err |-> NilErr,
     header |-> NoHeaders,
     setErr |-> NilErr,
     upstreamRequests |-> 0]

\* The store, the Refresher and the handlers when main has set them up.
CoreInit ==
    /\ value = NewTokenStoreValue
    /\ lockHeld = FALSE
    /\ initialized = 0
    /\ closed = FALSE
    /\ schedPc = "start"
    /\ toc = 0
    /\ resp = NoResponse
    /\ res = [nt |-> "", refreshIn |-> 0, err |-> NilErr]
    /\ trigger = "none"
    /\ preempted = FALSE
    /\ valueAtStart = NewTokenStoreValue
    /\ notified = 0
    /\ setCalled = FALSE
    /\ pc = [p \in Handlers |-> "idle"]
    /\ token = [p \in Handlers |-> ""]
    /\ herr = [p \in Handlers |-> NilErr]
    /\ waited = [p \in Handlers |-> 0]
    /\ received = [p \in Handlers |-> FALSE]
    /\ written = [p \in Handlers |-> NothingWritten]

Init ==
    /\ CoreInit
    /\ firstSet = "off"
    /\ config = ConfigNotModelled
    /\ acao = AcaoNotModelled
    /\ newItems = NewItemsNotModelled
    /\ bibCall = BibCallNotModelled
    /\ rawCall = RawCallNotModelled

(***************************************************************************)
(* The Refresher goroutine.                                                *)
(***************************************************************************)

\* refresh that takes the write lock before it sends the request.
BeginAcquire_HoldsLock(why, pending) ==
    /\ schedPc' = "inflight"
    /\ trigger' = why
    /\ preempted' = pending
    /\ valueAtStart' = value
    /\ lockHeld' = TRUE
    /\ UNCHANGED <<toc, resp, res, value, initialized, notified, setCalled, firstSet>>
    /\ UNCHANGED sideVars

\* runRefreshSetUpNext calls refresh: the request leaves for the endpoint.
BeginAcquire(why, pending) ==
    /\ schedPc' = "inflight"
    /\ trigger' = why
    /\ preempted' = pending
    /\ valueAtStart' = value
    /\ UNCHANGED <<toc, resp, res, storeVars>>
    /\ UNCHANGED sideVars

\* A goroutine that enters its loop with a countdown and no first acquisition.
SchedStart_WaitsFirst ==
    /\ schedPc = "start"
    /\ schedPc' = "waiting"
    /\ toc' = DefaultRefreshTime
    /\ UNCHANGED <<resp, res, trigger, preempted, valueAtStart, storeVars, closed, handlerVars>>
    /\ UNCHANGED sideVars

\* The goroutine starts with an acquisition.
SchedStart ==
    /\ schedPc = "start"
    /\ BeginAcquire("start", FALSE)
    /\ UNCHANGED <<closed, handlerVars>>

\* refresh gets the endpoint's answer and calls set, which takes the write lock.
RefreshRespond(answer) ==
    /\ schedPc = "inflight"
    /\ ~lockHeld
    /\ resp' = answer
    /\ res' = RefreshResult(answer)
    /\ lockHeld' = TRUE
    /\ schedPc' = "setLocked"
    /\ UNCHANGED <<value, initialized, notified, setCalled, firstSet, closed, toc, trigger,
                   preempted, valueAtStart, handlerVars>>
    /\ UNCHANGED sideVars

\* set: if the value is the sentinel, send on Initialized (blocks while full).
SetNotify ==
    /\ schedPc = "setLocked"
    /\ IF value = UninitialedTokenValue
       THEN /\ initialized < InitializedCap
            /\ initialized' = initialized + 1
            /\ notified' = Min(notified + 1, NotifiedCap)
       ELSE UNCHANGED <<initialized, notified>>
    /\ schedPc' = "setWrite"
    /\ UNCHANGED <<value, lockHeld, setCalled, firstSet, closed, toc, resp, res, trigger,
                   preempted, valueAtStart, handlerVars>>
    /\ UNCHANGED sideVars

\* A goroutine that returns when refresh has returned an error.
SetWrite_ExitOnError ==
    /\ schedPc = "setWrite"
    /\ value' = res.nt
    /\ lockHeld' = FALSE
    /\ setCalled' = TRUE
    /\ firstSet' = IF firstSet = "none" THEN TokenState(res.nt) ELSE firstSet
    /\ toc' = FutureTime(res.refreshIn, res.err)
    /\ schedPc' = IF res.err # NilErr THEN "done" ELSE "waiting"
    /\ UNCHANGED <<initialized, notified, closed, resp, res, trigger, preempted,
                   valueAtStart, handlerVars>>
    /\ UNCHANGED sideVars

\* refresh that returns on an error without calling set("").
SetWrite_KeepOnError ==
    /\ schedPc = "setWrite"
    /\ value' = IF res.err # NilErr THEN value ELSE res.nt
    /\ lockHeld' = FALSE
    /\ setCalled' = TRUE
    /\ firstSet' = IF firstSet = "none" THEN TokenState(res.nt) ELSE firstSet
    /\ toc' = FutureTime(res.refreshIn, res.err)
    /\ schedPc' = "waiting"
    /\ UNCHANGED <<initialized, notified, closed, resp, res, trigger, preempted,
                   valueAtStart, handlerVars>>
    /\ UNCHANGED sideVars

\* set writes the value and unlocks; refresh returns; the next countdown starts.
SetWrite ==
    /\ schedPc = "setWrite"
    /\ value' = res.nt
    /\ lockHeld' = FALSE
    /\ setCalled' = TRUE
    /\ firstSet' = IF firstSet = "none" THEN TokenState(res.nt) ELSE firstSet
    /\ toc' = FutureTime(res.refreshIn, res.err)
    /\ schedPc' = "waiting"
    /\ UNCHANGED <<initialized, notified, closed, resp, res, trigger, preempted,
                   valueAtStart, handlerVars>>
    /\ UNCHANGED sideVars

\* A countdown that starts an acquisition by itself when it fires, whether or
\* not the goroutine is in the select of refreshOrTimeout.
SchedTimeout_FiresAnywhere ==
    /\ schedPc \in {"waiting", "inflight"}
    /\ toc = 0
    /\ BeginAcquire("timeout", FALSE)
    /\ UNCHANGED <<closed, handlerVars>>

\* A goroutine that ignores the error of refreshOrTimeout and keeps looping.
SchedTimeout_AfterReturn ==
    /\ schedPc \in {"waiting", "done"}
    /\ toc = 0
    /\ BeginAcquire("timeout", FALSE)
    /\ UNCHANGED <<closed, handlerVars>>

\* refreshOrTimeout, case <-timeout.
SchedTimeout ==
    /\ schedPc = "waiting"
    /\ toc = 0
    /\ BeginAcquire("timeout", FALSE)
    /\ UNCHANGED <<closed, handlerVars>>

\* A Refresher that receives signals in a goroutine of their own and starts
\* an acquisition for each, whether or not one is under way.
SchedSignal_Concurrent(p) ==
    /\ schedPc \in {"waiting", "inflight"}
    /\ ~closed
    /\ pc[p] = "sendRefresh"
    /\ pc' = [pc EXCEPT ![p] = "idle"]
    /\ written' = [written EXCEPT ![p] = NothingWritten]
    /\ BeginAcquire("signal", toc > 0)
    /\ UNCHANGED <<closed, token, herr, waited, received>>

\* A Refresh channel that is drained when the Refresher receives: one
\* acquisition answers every signal that is pending.
SchedSignal_Coalesced(p) ==
    /\ schedPc = "waiting"
    /\ ~closed
    /\ pc[p] = "sendRefresh"
    /\ pc' = [q \in Handlers |-> IF pc[q] = "sendRefresh" THEN "idle" ELSE pc[q]]
    /\ written' = [q \in Handlers |->
                    IF pc[q] = "sendRefresh" THEN NothingWritten ELSE written[q]]
    /\ BeginAcquire("signal", toc > 0)
    /\ UNCHANGED <<closed, token, herr, waited, received>>

\* refreshOrTimeout that receives the signal and keeps waiting for the countdown.
SchedSignal_Ignored(p) ==
    /\ schedPc = "waiting"
    /\ ~closed
    /\ pc[p] = "sendRefresh"
    /\ pc' = [pc EXCEPT ![p] = "idle"]
    /\ written' = [written EXCEPT ![p] = NothingWritten]
    /\ UNCHANGED <<storeVars, schedVars, closed, token, herr, waited, received>>
    /\ UNCHANGED sideVars

\* refreshOrTimeout, case <-t.Refresh with ok: the send of handler p is received.
SchedSignal(p) ==
    /\ schedPc = "waiting"
    /\ ~closed
    /\ pc[p] = "sendRefresh"
    /\ pc' = [pc EXCEPT ![p] = "idle"]
    /\ written' = [written EXCEPT ![p] = NothingWritten]
    /\ BeginAcquire("signal", toc > 0)
    /\ UNCHANGED <<closed, token, herr, waited, received>>

\* refreshOrTimeout, case <-t.Refresh with !ok: the goroutine returns.
SchedClosed ==
    /\ schedPc = "waiting"
    /\ closed
    /\ schedPc' = "done"
    /\ UNCHANGED <<storeVars, closed, toc, resp, res, trigger, preempted, valueAtStart,
                   handlerVars>>
    /\ UNCHANGED sideVars

\* close(tokenStore.Refresh), deferred in main.
CloseRefresh ==
    /\ ~closed
    /\ closed' = TRUE
    /\ UNCHANGED <<storeVars, schedVars, handlerVars>>
    /\ UNCHANGED sideVars

(***************************************************************************)
(* getTokenOrError, called by handler p.                                   *)
(***************************************************************************)

\* getTokenOrError that waits for Initialized whatever Get returned.
AccessorCall_AlwaysWaits(p) ==
    /\ pc[p] = "idle"
    /\ ~lockHeld
    /\ LET g == Get(value) IN
        /\ token' = [token EXCEPT ![p] = g.token]
        /\ herr' = [herr EXCEPT ![p] = g.err]
        /\ pc' = [pc EXCEPT ![p] = IF g.err # NilErr THEN "failed" ELSE "select"]
        /\ written' = [written EXCEPT ![p] =
                        IF g.err # NilErr THEN StatusInternalServerError
                        ELSE NothingWritten]
    /\ waited' = [waited EXCEPT ![p] = 0]
    /\ received' = [received EXCEPT ![p] = FALSE]
    /\ UNCHANGED <<storeVars, schedVars, closed>>
    /\ UNCHANGED sideVars

\* The first tokenStore.Get() and what follows it without blocking.
AccessorCall(p) ==
    /\ pc[p] = "idle"
    /\ ~lockHeld
    /\ LET g == Get(value) IN
        /\ token' = [token EXCEPT ![p] = g.token]
        /\ herr' = [herr EXCEPT ![p] = g.err]
        /\ pc' = [pc EXCEPT ![p] =
                    IF g.err # NilErr THEN "failed"
                    ELSE IF g.token = UninitialedTokenValue THEN "select"
                    ELSE "gotToken"]
        /\ written' = [written EXCEPT ![p] =
                        IF g.err # NilErr THEN StatusInternalServerError
                        ELSE NothingWritten]
    /\ waited' = [waited EXCEPT ![p] = 0]
    /\ received' = [received EXCEPT ![p] = FALSE]
    /\ UNCHANGED <<storeVars, schedVars, closed>>
    /\ UNCHANGED sideVars

\* select, case <-tokenStore.Initialized.
AccessorReceive(p) ==
    /\ pc[p] = "select"
    /\ initialized > 0
    /\ initialized' = initialized - 1
    /\ received' = [received EXCEPT ![p] = TRUE]
    /\ waited' = [waited EXCEPT ![p] = 0]
    /\ pc' = [pc EXCEPT ![p] = "handBack"]
    /\ UNCHANGED <<value, lockHeld, notified, setCalled, firstSet, schedVars, closed,
                   token, herr, written>>
    /\ UNCHANGED sideVars

\* tokenStore.Initialized <- struct{}{} (blocks while the buffer is full).
AccessorHandBack(p) ==
    /\ pc[p] = "handBack"
    /\ initialized < InitializedCap
    /\ initialized' = initialized + 1
    /\ pc' = [pc EXCEPT ![p] = "reGet"]
    /\ UNCHANGED <<value, lockHeld, notified, setCalled, firstSet, schedVars, closed,
                   token, herr, waited, received, written>>
    /\ UNCHANGED sideVars

\* getTokenOrError that returns what its first Get returned.
AccessorReGet_Stale(p) ==
    /\ pc[p] = "reGet"
    /\ ~lockHeld
    /\ pc' = [pc EXCEPT ![p] = "gotToken"]
    /\ UNCHANGED <<storeVars, schedVars, closed, token, herr, waited, received, written>>
    /\ UNCHANGED sideVars

\* The second tokenStore.Get().
AccessorReGet(p) ==
    /\ pc[p] = "reGet"
    /\ ~lockHeld
    /\ LET g == Get(value) IN
        /\ token' = [token EXCEPT ![p] = g.token]
        /\ herr' = [herr EXCEPT ![p] = g.err]
        /\ pc' = [pc EXCEPT ![p] = IF g.err # NilErr THEN "failed" ELSE "gotToken"]
        /\ written' = [written EXCEPT ![p] =
                        IF g.err # NilErr THEN StatusInternalServerError
                        ELSE NothingWritten]
    /\ UNCHANGED <<storeVars, schedVars, closed, waited, received>>
    /\ UNCHANGED sideVars

\* time.After(30): thirty nanoseconds, the timer has fired as soon as it is read.
AccessorTimeoutFired_NoWait(p) ==
    /\ pc[p] = "select"
    /\ herr' = [herr EXCEPT ![p] = TimeoutError]
    /\ pc' = [pc EXCEPT ![p] = "failed"]
    /\ written' = [written EXCEPT ![p] = StatusInternalServerError]
    /\ UNCHANGED <<storeVars, schedVars, closed, token, waited, received>>
    /\ UNCHANGED sideVars

\* select, case <-time.After(time.Second * 30).
AccessorTimeoutFired(p) ==
    /\ pc[p] = "select"
    /\ waited[p] >= AccessorTimeout
    /\ herr' = [herr EXCEPT ![p] = TimeoutError]
    /\ pc' = [pc EXCEPT ![p] = "failed"]
    /\ written' = [written EXCEPT ![p] = StatusInternalServerError]
    /\ UNCHANGED <<storeVars, schedVars, closed, token, waited, received>>
    /\ UNCHANGED sideVars

(***************************************************************************)
(* The rest of a status handler.                                           *)
(***************************************************************************)

\* getTokenOrError returned an error: the handler logs it and returns.
HandlerReturn(p) ==
    /\ pc[p] = "failed"
    /\ pc' = [pc EXCEPT ![p] = "idle"]
    /\ written' = [written EXCEPT ![p] = NothingWritten]
    /\ token' = [token EXCEPT ![p] = ""]
    /\ herr' = [herr EXCEPT ![p] = NilErr]
    /\ waited' = [waited EXCEPT ![p] = 0]
    /\ received' = [received EXCEPT ![p] = FALSE]
    /\ UNCHANGED <<storeVars, schedVars, closed>>
    /\ UNCHANGED sideVars

\* A handler that asks for a refresh on 401 without answering its client.
HandlerUpstream_NoAnswer(p, status) ==
    /\ pc[p] = "gotToken"
    /\ pc' = [pc EXCEPT ![p] = IF status = StatusUnauthorized THEN "sendRefresh" ELSE "idle"]
    /\ written' = [written EXCEPT ![p] = NothingWritten]
    /\ token' = [token EXCEPT ![p] = ""]
    /\ herr' = [herr EXCEPT ![p] = NilErr]
    /\ waited' = [waited EXCEPT ![p] = 0]
    /\ received' = [received EXCEPT ![p] = FALSE]
    /\ UNCHANGED <<storeVars, schedVars, closed>>
    /\ UNCHANGED sideVars

\* The upstream API answers; on 401 the handler goes on to signal a refresh.
HandlerUpstream(p, status) ==
    /\ pc[p] = "gotToken"
    /\ pc' = [pc EXCEPT ![p] = IF status = StatusUnauthorized THEN "sendRefresh" ELSE "idle"]
    /\ written' = [written EXCEPT ![p] =
                    IF status = StatusUnauthorized THEN StatusInternalServerError
                    ELSE NothingWritten]
    /\ token' = [token EXCEPT ![p] = ""]
    /\ herr' = [herr EXCEPT ![p] = NilErr]
    /\ waited' = [waited EXCEPT ![p] = 0]
    /\ received' = [received EXCEPT ![p] = FALSE]
    /\ UNCHANGED <<storeVars, schedVars, closed>>
    /\ UNCHANGED sideVars

\* A send on the closed Refresh channel panics; net/http recovers the handler.
HandlerPanic(p) ==
    /\ pc[p] = "sendRefresh"
    /\ closed
    /\ pc' = [pc EXCEPT ![p] = "idle"]
    /\ written' = [written EXCEPT ![p] = NothingWritten]
    /\ UNCHANGED <<storeVars, schedVars, closed, token, herr, waited, received>>
    /\ UNCHANGED sideVars

(***************************************************************************)
(* TickSeconds seconds pass.                                               *)
(***************************************************************************)
Tick ==
    /\ toc' = Max(toc - TickSeconds, 0)
    /\ waited' = [p \in Handlers |->
                    IF pc[p] = "select"
                    THEN Min(waited[p] + TickSeconds, AccessorTimeout)
                    ELSE waited[p]]
    /\ UNCHANGED <<storeVars, closed, schedPc, resp, res, trigger, preempted,
                   valueAtStart, pc, token, herr, received, written>>
    /\ UNCHANGED sideVars

Next ==
    \/ SchedStart
    \/ \E answer \in Responses : RefreshRespond(answer)
    \/ SetNotify
    \/ SetWrite
    \/ SchedTimeout
    \/ \E p \in Handlers : SchedSignal(p)
    \/ SchedClosed
    \/ CloseRefresh
    \/ \E p \in Handlers : AccessorCall(p)
    \/ \E p \in Handlers : AccessorReceive(p)
    \/ \E p \in Handlers : AccessorHandBack(p)
    \/ \E p \in Handlers : AccessorReGet(p)
    \/ \E p \in Handlers : AccessorTimeoutFired(p)
    \/ \E p \in Handlers : HandlerReturn(p)
    \/ \E p \in Handlers, status \in UpstreamStatuses : HandlerUpstream(p, status)
    \/ \E p \in Handlers : HandlerPanic(p)
    \/ Tick

Spec == Init /\ [][Next]_vars

TypeOK ==
    /\ value \in Tokens
    /\ lockHeld \in BOOLEAN
    /\ initialized \in 0..InitializedCap
    /\ closed \in BOOLEAN
    /\ schedPc \in {"start", "inflight", "setLocked", "setWrite", "waiting", "done"}
    /\ toc \in 0..(DefaultRefreshTime + TokenRefreshBuffer)
    /\ trigger \in {"none", "start", "timeout", "signal"}
    /\ notified \in 0..NotifiedCap
    /\ \A p \in Handlers :
        /\ pc[p] \in {"idle", "select", "handBack", "reGet", "failed", "gotToken", "sendRefresh"}
        /\ waited[p] \in 0..AccessorTimeout
        /\ written[p] \in {NothingWritten, StatusInternalServerError}
    /\ firstSet \in {"off", "none", "Uninitialized", "Valid", "Failed"}

(***************************************************************************)
(* newBibsHandler and getNewItems request by request: every call of        *)
(* getNewItems asks the upstream API for the total of its window           *)
(* (getNumberOfEntries) and then for the records of the window.  The       *)
(* upstream API holds records in the MaxWindows latest windows; every      *)
(* window before them is empty, and those windows are all alike: date      *)
(* stops counting at MaxWindows + 1.                                       *)
(***************************************************************************)
UnauthorizedError == "Unauthorized"

JSONBody == "JSON body"

\* What the upstream API can answer to a request of the /new handler.
NewOutcomes == {TransportError, StatusUnauthorized, DecodeError, StatusOK}

\* newBibsHandler before a request, with what it writes and returns recorded.
NewFetchStart(n, c) ==
    [newLimit |-> n, created |-> c, newPc |-> "idle", date |-> 0,
     alreadyProcessed |-> {}, served |-> {},
     total |-> 0, countOutcome |-> NothingWritten, listOutcome |-> NothingWritten,
     err |-> NilErr, writes |-> <<>>, refreshSent |-> 0]

\* The total the upstream API reports for a window.
TotalOf(c, date) == IF date \in Windows THEN c[date] ELSE 0

\* entries, err := getNewItems(entries, time.Now(), w, r)
NewFetchCall ==
    /\ newItems.newPc = "idle"
    /\ newItems' = [newItems EXCEPT !.newPc = "count", !.date = 1]
    /\ UNCHANGED <<coreVars, config, acao, bibCall, rawCall>>

\* getTokenOrError fails in getNewItems or in getNumberOfEntries: it has
\* written 500, and the error is returned.
NewFetchNoToken(e) ==
    /\ newItems.newPc = "count"
    /\ newItems' = [newItems EXCEPT
                        !.writes = Append(@, StatusInternalServerError),
                        !.err = e,
                        !.newPc = "returned"]
    /\ UNCHANGED <<coreVars, config, acao, bibCall, rawCall>>

\* getNumberOfEntries: the request for the total of the window.  An answer
\* that does not decode gives the total 0 and no error.
GetNumberOfEntries(outcome) ==
    /\ newItems.newPc = "count"
    /\ newItems' =
        CASE outcome = TransportError ->
                [newItems EXCEPT
                    !.countOutcome = outcome,
                    !.writes = Append(@, StatusInternalServerError),
                    !.err = TransportError,
                    !.newPc = "returned"]
          [] outcome = StatusUnauthorized ->
                [newItems EXCEPT
                    !.countOutcome = outcome,
                    !.writes = Append(@, StatusInternalServerError),
                    !.refreshSent = @ + 1,
                    !.err = UnauthorizedError,
                    !.newPc = "returned"]
          [] outcome = DecodeError ->
                [newItems EXCEPT
                    !.countOutcome = outcome,
                    !.total = 0,
                    !.newPc = "list"]
          [] OTHER ->
                [newItems EXCEPT
                    !.countOutcome = outcome,
                    !.total = TotalOf(newItems.created, newItems.date),
                    !.newPc = "list"]
    /\ UNCHANGED <<coreVars, config, acao, bibCall, rawCall>>

\* getNewItems from its own request to its return or to its call of itself
\* for the window before.  On 401 it returns the err of SendRequestToAPI,
\* which is nil.
GetNewItemsList(outcome) ==
    /\ newItems.newPc = "list"
    /\ LET needOneMoreDay == newItems.total < newItems.newLimit
           offset == IF newItems.total >= newItems.newLimit
                     THEN newItems.total - newItems.newLimit
                     ELSE 0
       IN  newItems' =
            CASE outcome = TransportError ->
                    [newItems EXCEPT
                        !.listOutcome = outcome,
                        !.writes = Append(@, StatusInternalServerError),
                        !.err = TransportError,
                        !.newPc = "returned"]
              [] outcome = StatusUnauthorized ->
                    [newItems EXCEPT
                        !.listOutcome = outcome,
                        !.writes = Append(@, StatusInternalServerError),
                        !.refreshSent = @ + 1,
                        !.alreadyProcessed = {},
                        !.err = NilErr,
                        !.newPc = "returned"]
              [] outcome = DecodeError ->
                    [newItems EXCEPT
                        !.listOutcome = outcome,
                        !.writes = Append(@, StatusInternalServerError),
                        !.err = DecodeError,
                        !.newPc = "returned"]
              [] OTHER ->
                    [newItems EXCEPT
                        !.listOutcome = outcome,
                        !.alreadyProcessed =
                            @ \cup EntriesFrom(newItems.date, offset, newItems.total),
                        !.date = IF needOneMoreDay THEN Min(@ + 1, MaxWindows + 1) ELSE @,
                        !.newPc = IF needOneMoreDay THEN "count" ELSE "returned"]
    /\ UNCHANGED <<coreVars, config, acao, bibCall, rawCall>>

\* newBibsHandler after getNewItems: it returns on an error, and writes the
\* entries as JSON otherwise.
NewFetchRespond ==
    /\ newItems.newPc = "returned"
    /\ newItems' =
        IF newItems.err # NilErr
        THEN [newItems EXCEPT !.newPc = "done"]
        ELSE [newItems EXCEPT
                !.served = newItems.alreadyProcessed,
                !.writes = Append(@, JSONBody),
                !.newPc = "done"]
    /\ UNCHANGED <<coreVars, config, acao, bibCall, rawCall>>

NewFetchInit ==
    /\ CoreInit
    /\ firstSet = "off"
    /\ config = ConfigNotModelled
    /\ acao = AcaoNotModelled
    /\ newItems \in {NewFetchStart(n, c) :
                        n \in 1..MaxNewLimit, c \in [Windows -> 0..MaxTotal]}
    /\ bibCall = BibCallNotModelled
    /\ rawCall = RawCallNotModelled

NewFetchNext ==
    \/ NewFetchCall
    \/ \E e \in {TokenGenerationError, TimeoutError} : NewFetchNoToken(e)
    \/ \E outcome \in NewOutcomes : GetNumberOfEntries(outcome)
    \/ \E outcome \in NewOutcomes : GetNewItemsList(outcome)
    \/ NewFetchRespond

NewFetchSpec == NewFetchInit /\ [][NewFetchNext]_vars

(***************************************************************************)
(* The same handler when every upstream request is answered 200 with a     *)
(* body that decodes and getTokenOrError returns a token.  The handler's   *)
(* goroutine is scheduled: it takes the step it can take.                  *)
(***************************************************************************)
NewAnsweredNext ==
    \/ NewFetchCall
    \/ GetNumberOfEntries(StatusOK)
    \/ GetNewItemsList(StatusOK)
    \/ NewFetchRespond

NewAnsweredSpec ==
    /\ NewFetchInit
    /\ [][NewAnsweredNext]_vars
    /\ WF_vars(NewFetchCall)
    /\ WF_vars(GetNumberOfEntries(StatusOK))
    /\ WF_vars(GetNewItemsList(StatusOK))
    /\ WF_vars(NewFetchRespond)

(***************************************************************************)
(* main may close the Refresh channel at any moment.  The endpoint answers *)
(* every request and the goroutines are scheduled as in OpenSpec; a select *)
(* that finds the closed channel ready again and again chooses it in the   *)
(* end (select chooses among its ready cases at random).                   *)
(***************************************************************************)
ClosedSpec ==
    /\ Init
    /\ [][Next]_vars
    /\ WF_vars(SchedStart)
    /\ WF_vars(\E answer \in Responses : RefreshRespond(answer))
    /\ WF_vars(SetNotify)
    /\ WF_vars(SetWrite)
    /\ SF_vars(SchedClosed)
    /\ \A p \in Handlers :
        /\ WF_vars(AccessorReceive(p))
        /\ WF_vars(AccessorHandBack(p))
        /\ WF_vars(AccessorReGet(p))
        /\ WF_vars(HandlerReturn(p))

(***************************************************************************)
(* The /raw/ reverse proxy next to the Refresher and one status handler:   *)
(* rawRewriter is the Director of the proxy, which sends the rewritten     *)
(* request to the upstream API.  Refresh stays open.                       *)
(***************************************************************************)

\* The header of a request as it comes in from the client.
IncomingHeaders(or) ==
    [NoHeaders EXCEPT !.XForwardedFor =
        IF or.forwardedFor = "" THEN <<>> ELSE <<or.forwardedFor>>]

RawRequests == [forwardedFor : ForwardedFors, remoteAddr : RemoteAddrs]

\* rawRewriter: Get, whose error is only logged, and SetAuthorizationHeaders
\* on the request itself, whose error is only logged.
RawRewriter(or) ==
    /\ rawCall.rawPc = "idle"
    /\ ~lockHeld
    /\ LET g == Get(value)
           set == SetAuthorizationHeaders(IncomingHeaders(or), or, g.token)
       IN  rawCall' = [rawCall EXCEPT
                        !.rawPc = "rewritten",
                        !.token = g.token,
                        !.err = g.err,
                        !.header = set.header,
                        !.setErr = set.err]
    /\ UNCHANGED <<coreVars, config, acao, newItems, bibCall>>

\* The proxy sends the rewritten request to the upstream API.
RawRoundTrip ==
    /\ rawCall.rawPc = "rewritten"
    /\ rawCall' = [rawCall EXCEPT !.rawPc = "sent", !.upstreamRequests = @ + 1]
    /\ UNCHANGED <<coreVars, config, acao, newItems, bibCall>>

\* The proxy copies the upstream answer to the client; the request is over.
RawServed ==
    /\ rawCall.rawPc = "sent"
    /\ rawCall' = RawCallIdle
    /\ UNCHANGED <<coreVars, config, acao, newItems, bibCall>>

RawInit ==
    /\ CoreInit
    /\ firstSet = "off"
    /\ config = ConfigNotModelled
    /\ acao = AcaoNotModelled
    /\ newItems = NewItemsNotModelled
    /\ bibCall = BibCallNotModelled
    /\ rawCall = RawCallIdle

\* The status handler that runs next to the proxy.
RawSpecHandlers == {1}

RawNext ==
    \/ SchedStart
    \/ \E answer \in Responses : RefreshRespond(answer)
    \/ SetNotify
    \/ SetWrite
    \/ SchedTimeout
    \/ \E p \in RawSpecHandlers : SchedSignal(p)
    \/ \E p \in RawSpecHandlers : AccessorCall(p)
    \/ \E p \in RawSpecHandlers : AccessorReceive(p)
    \/ \E p \in RawSpecHandlers : AccessorHandBack(p)
    \/ \E p \in RawSpecHandlers : AccessorReGet(p)
    \/ \E p \in RawSpecHandlers : AccessorTimeoutFired(p)
    \/ \E p \in RawSpecHandlers : HandlerReturn(p)
    \/ \E p \in RawSpecHandlers, status \in UpstreamStatuses : HandlerUpstream(p, status)
    \/ \E or \in RawRequests : RawRewriter(or)
    \/ RawRoundTrip
    \/ RawServed
    \/ Tick

RawSpec == RawInit /\ [][RawNext]_vars

(***************************************************************************)
(* The authorization endpoint never answers: the first acquisition stays   *)
(* in flight and no set call is ever made.  Time passes, and a goroutine   *)
(* whose timer has fired is scheduled.                                     *)
(***************************************************************************)
NeverAnsweredNext ==
    \/ SchedStart
    \/ \E p \in Handlers : AccessorCall(p)
    \/ \E p \in Handlers : AccessorTimeoutFired(p)
    \/ \E p \in Handlers : HandlerReturn(p)
    \/ Tick

NeverAnsweredSpec ==
    /\ Init
    /\ [][NeverAnsweredNext]_vars
    /\ WF_vars(Tick)
    /\ \A p \in Handlers : WF_vars(AccessorTimeoutFired(p))

(***************************************************************************)
(* The Refresh channel is never closed, the endpoint answers every         *)
(* request, and the goroutines are scheduled: the Refresher takes a step   *)
(* it can take, and a handler blocked at its send is received when the     *)
(* Refresher comes back to its select again and again (the senders of a    *)
(* channel are served in the order in which they arrived), and a handler   *)
(* takes the step of getTokenOrError it can take.                          *)
(***************************************************************************)
OpenNext ==
    \/ SchedStart
    \/ \E answer \in Responses : RefreshRespond(answer)
    \/ SetNotify
    \/ SetWrite
    \/ SchedTimeout
    \/ \E p \in Handlers : SchedSignal(p)
    \/ \E p \in Handlers : AccessorCall(p)
    \/ \E p \in Handlers : AccessorReceive(p)
    \/ \E p \in Handlers : AccessorHandBack(p)
    \/ \E p \in Handlers : AccessorReGet(p)
    \/ \E p \in Handlers : AccessorTimeoutFired(p)
    \/ \E p \in Handlers : HandlerReturn(p)
    \/ \E p \in Handlers, status \in UpstreamStatuses : HandlerUpstream(p, status)
    \/ Tick

OpenSpec ==
    /\ Init
    /\ [][OpenNext]_vars
    /\ WF_vars(SchedStart)
    /\ WF_vars(\E answer \in Responses : RefreshRespond(answer))
    /\ WF_vars(SetNotify)
    /\ WF_vars(SetWrite)
    /\ \A p \in Handlers :
        /\ SF_vars(SchedSignal(p))
        /\ WF_vars(AccessorReceive(p))
        /\ WF_vars(AccessorHandBack(p))
        /\ WF_vars(AccessorReGet(p))
        /\ WF_vars(HandlerReturn(p))

(***************************************************************************)
(* One caller, with the history of the store recorded: firstSet is what    *)
(* the first set call stored.  Every call of getTokenOrError begins before  *)
(* the first set call, that is, while the store is Uninitialized.           *)
(***************************************************************************)
HistoryCallers == {1}

EarlyCall(p) ==
    /\ firstSet = "none"
    /\ AccessorCall(p)

HistoryInit ==
    /\ CoreInit
    /\ firstSet = "none"
    /\ config = ConfigNotModelled
    /\ acao = AcaoNotModelled
    /\ newItems = NewItemsNotModelled
    /\ bibCall = BibCallNotModelled
    /\ rawCall = RawCallNotModelled

HistoryNext ==
    \/ SchedStart
    \/ \E answer \in Responses : RefreshRespond(answer)
    \/ SetNotify
    \/ SetWrite
    \/ SchedTimeout
    \/ \E p \in HistoryCallers : SchedSignal(p)
    \/ SchedClosed
    \/ CloseRefresh
    \/ \E p \in HistoryCallers : EarlyCall(p)
    \/ \E p \in HistoryCallers : AccessorReceive(p)
    \/ \E p \in HistoryCallers : AccessorHandBack(p)
    \/ \E p \in HistoryCallers : AccessorReGet(p)
    \/ \E p \in HistoryCallers : AccessorTimeoutFired(p)
    \/ \E p \in HistoryCallers : HandlerReturn(p)
    \/ \E p \in HistoryCallers, status \in UpstreamStatuses : HandlerUpstream(p, status)
    \/ \E p \in HistoryCallers : HandlerPanic(p)
    \/ Tick

HistorySpec == HistoryInit /\ [][HistoryNext]_vars

(***************************************************************************)
(* main, from flag.Parse to the configured program, for every command line *)
(* and every environment over FlagNames and Arguments.                     *)
(***************************************************************************)

\* flag.Parse(): sets the flags given on the command line, or exits.
FlagParse ==
    /\ config.mainPc = "start"
    /\ config' =
        IF \A f \in FlagNames :
                config.commandLine[f] # NotSet => FlagAccepts(f, config.commandLine[f])
        THEN [config EXCEPT
                !.flagValue = [f \in FlagNames |->
                                IF config.commandLine[f] # NotSet
                                THEN config.commandLine[f]
                                ELSE config.flagValue[f]],
                !.mainPc = "parsed"]
        ELSE [config EXCEPT !.mainPc = "exit"]
    /\ UNCHANGED <<coreVars, acao, newItems, bibCall, rawCall>>

\* l.Set(l.ParseLogLevel(*logLevel)).
SetLogLevel ==
    /\ config.mainPc = "parsed"
    /\ config' = [config EXCEPT
                    !.logMessageLevel = ParseLogLevel(config.flagValue["loglevel"]),
                    !.mainPc = "levelSet"]
    /\ UNCHANGED <<coreVars, acao, newItems, bibCall, rawCall>>

\* overrideUnsetFlagsFromEnvironmentVariables(): every flag that flag.Visit
\* does not list is set from its non-empty environment variable, or main exits.
OverrideUnsetFlagsFromEnvironmentVariables ==
    /\ config.mainPc = "levelSet"
    /\ LET listOfUnsetFlags == {f \in FlagNames : config.commandLine[f] = NotSet}
           fromEnvironment == {f \in listOfUnsetFlags : config.environment[f] # ""}
       IN  config' =
            IF \A f \in fromEnvironment : FlagAccepts(f, config.environment[f])
            THEN [config EXCEPT
                    !.flagValue = [f \in FlagNames |->
                                    IF f \in fromEnvironment
                                    THEN config.environment[f]
                                    ELSE config.flagValue[f]],
                    !.mainPc = "configured"]
            ELSE [config EXCEPT !.mainPc = "exit"]
    /\ UNCHANGED <<coreVars, acao, newItems, bibCall, rawCall>>

ConfigInit ==
    /\ CoreInit
    /\ firstSet = "off"
    /\ config \in {ConfigStart(c, e) :
                        c \in [FlagNames -> Arguments \cup {NotSet}],
                        e \in [FlagNames -> Arguments \cup {""}]}
    /\ acao = AcaoNotModelled
    /\ newItems = NewItemsNotModelled
    /\ bibCall = BibCallNotModelled
    /\ rawCall = RawCallNotModelled

ConfigNext ==
    \/ FlagParse
    \/ SetLogLevel
    \/ OverrideUnsetFlagsFromEnvironmentVariables

ConfigSpec == ConfigInit /\ [][ConfigNext]_vars

(***************************************************************************)
(* The server answering requests, for every header configuration over      *)
(* ConfigEntries and every request over Paths and Origins.                 *)
(***************************************************************************)

\* One request is routed to its handler and answered.
Serve(path, origin) ==
    /\ acao' = [acao EXCEPT
                    !.reqPath = path,
                    !.reqOrigin = origin,
                    !.respACAO = Route(path, acao.headerACAO, origin)]
    /\ UNCHANGED <<coreVars, config, newItems, bibCall, rawCall>>

AcaoInit ==
    /\ CoreInit
    /\ firstSet = "off"
    /\ config = ConfigNotModelled
    /\ acao \in {AcaoStart(h) : h \in HeaderConfigs}
    /\ newItems = NewItemsNotModelled
    /\ bibCall = BibCallNotModelled
    /\ rawCall = RawCallNotModelled

AcaoNext == \E path \in Paths, origin \in Origins : Serve(path, origin)

AcaoSpec == AcaoInit /\ [][AcaoNext]_vars

(***************************************************************************)
(* newBibsHandler and getNewItems, for every *newLimit up to MaxNewLimit    *)
(* and every upstream API that holds up to MaxTotal records in each of      *)
(* MaxWindows windows.                                                      *)
(***************************************************************************)

\* newBibsHandler calls getNewItems with an empty map and the present time.
NewBibsHandlerCall ==
    /\ newItems.newPc = "idle"
    /\ newItems' = [newItems EXCEPT
                        !.newPc = "collecting", !.date = 1, !.alreadyProcessed = {}]
    /\ UNCHANGED <<coreVars, config, acao, bibCall, rawCall>>

\* One call of getNewItems: it asks for the total of the window, reads the
\* records from its offset on, and calls itself for the window before when
\* the total is below *newLimit.
GetNewItems ==
    /\ newItems.newPc = "collecting"
    /\ LET total == newItems.created[newItems.date]
           needOneMoreDay == total < newItems.newLimit
           offset == IF total >= newItems.newLimit THEN total - newItems.newLimit ELSE 0
       IN  /\ needOneMoreDay => newItems.date < MaxWindows
           /\ newItems' = [newItems EXCEPT
                    !.alreadyProcessed = @ \cup EntriesFrom(newItems.date, offset, total),
                    !.date = IF needOneMoreDay THEN @ + 1 ELSE @,
                    !.newPc = IF needOneMoreDay THEN "collecting" ELSE "collected"]
    /\ UNCHANGED <<coreVars, config, acao, bibCall, rawCall>>

\* getNewItems returns an error: no token, an upstream error, 401, bad JSON.
GetNewItemsFails ==
    /\ newItems.newPc = "collecting"
    /\ newItems' = [newItems EXCEPT !.newPc = "failed"]
    /\ UNCHANGED <<coreVars, config, acao, bibCall, rawCall>>

\* newBibsHandler writes the collected entries.
NewBibsHandlerRespond ==
    /\ newItems.newPc = "collected"
    /\ newItems' = [newItems EXCEPT !.served = newItems.alreadyProcessed, !.newPc = "served"]
    /\ UNCHANGED <<coreVars, config, acao, bibCall, rawCall>>

NewItemsInit ==
    /\ CoreInit
    /\ firstSet = "off"
    /\ config = ConfigNotModelled
    /\ acao = AcaoNotModelled
    /\ newItems \in {NewItemsStart(n, c) :
                        n \in 1..MaxNewLimit, c \in [Windows -> 0..MaxTotal]}
    /\ bibCall = BibCallNotModelled
    /\ rawCall = RawCallNotModelled

NewItemsNext ==
    \/ NewBibsHandlerCall
    \/ GetNewItems
    \/ GetNewItemsFails
    \/ NewBibsHandlerRespond

NewItemsSpec == NewItemsInit /\ [][NewItemsNext]_vars

(***************************************************************************)
(* statusBibHandler serving one request, for every path rest of up to     *)
(* MaxPathLen characters, every X-Forwarded-For and RemoteAddr of the      *)
(* request, and an API URL that parses or does not.                        *)
(***************************************************************************)

\* token, err := getTokenOrError(w, r): on an error 500 has been written.
BibGetTokenOrError(result) ==
    /\ bibCall.bibPc = "start"
    /\ bibCall' = [bibCall EXCEPT
                    !.token = result.token,
                    !.err = result.err,
                    !.status = IF result.err # NilErr THEN StatusInternalServerError ELSE @,
                    !.bibPc = IF result.err # NilErr THEN "returned" ELSE "haveToken"]
    /\ UNCHANGED <<coreVars, config, acao, newItems, rawCall>>

\* A handler that goes on to the upstream API whatever the path holds.
BibCheckID_Skipped ==
    /\ bibCall.bibPc = "haveToken"
    /\ bibCall' = [bibCall EXCEPT !.bibPc = "haveBibID"]
    /\ UNCHANGED <<coreVars, config, acao, newItems, rawCall>>

\* bibID is the first segment of the rest of the path; when it is empty the
\* handler answers 400 and returns.
BibCheckID ==
    /\ bibCall.bibPc = "haveToken"
    /\ bibCall' =
        IF FirstSegment(bibCall.rest) = <<>>
        THEN [bibCall EXCEPT !.status = StatusBadRequest, !.bibPc = "returned"]
        ELSE [bibCall EXCEPT !.bibPc = "haveBibID"]
    /\ UNCHANGED <<coreVars, config, acao, newItems, rawCall>>

\* parseURLandJoinToPath(*apiURL, ...): on an error the handler answers 500.
BibParseURL ==
    /\ bibCall.bibPc = "haveBibID"
    /\ bibCall' =
        IF bibCall.apiURLParses
        THEN [bibCall EXCEPT !.bibPc = "urlParsed"]
        ELSE [bibCall EXCEPT !.status = StatusInternalServerError, !.bibPc = "returned"]
    /\ UNCHANGED <<coreVars, config, acao, newItems, rawCall>>

\* SendRequestToAPI: http.NewRequest and SetAuthorizationHeaders, whose error
\* is logged.
BibSetAuthorizationHeaders ==
    /\ bibCall.bibPc = "urlParsed"
    /\ LET set == SetAuthorizationHeaders(NoHeaders, bibCall, bibCall.token)
       IN  bibCall' = [bibCall EXCEPT
                        !.nrHeader = set.header,
                        !.setErr = set.err,
                        !.bibPc = "headersSet"]
    /\ UNCHANGED <<coreVars, config, acao, newItems, rawCall>>

\* SendRequestToAPI: client.Do(req), and what the handler answers after it.
BibClientDo(outcome) ==
    /\ bibCall.bibPc = "headersSet"
    /\ bibCall' = [bibCall EXCEPT
                    !.upstreamRequests = @ + 1,
                    !.status = CASE outcome = StatusOK -> StatusOK
                                 [] outcome = StatusNotFound -> StatusNotFound
                                 [] OTHER -> StatusInternalServerError,
                    !.bibPc = "returned"]
    /\ UNCHANGED <<coreVars, config, acao, newItems, rawCall>>

StatusBibInit ==
    /\ CoreInit
    /\ firstSet = "off"
    /\ config = ConfigNotModelled
    /\ acao = AcaoNotModelled
    /\ newItems = NewItemsNotModelled
    /\ bibCall \in {BibCallStart(rest, x, a, u) :
                        rest \in BibPathRests, x \in ForwardedFors,
                        a \in RemoteAddrs, u \in BOOLEAN}
    /\ rawCall = RawCallNotModelled

StatusBibNext ==
    \/ \E result \in GetTokenOrErrorResults : BibGetTokenOrError(result)
    \/ BibCheckID
    \/ BibParseURL
    \/ BibSetAuthorizationHeaders
    \/ \E outcome \in UpstreamOutcomes : BibClientDo(outcome)

StatusBibSpec == StatusBibInit /\ [][StatusBibNext]_vars

(***************************************************************************)
(* Properties.                                                             *)
(***************************************************************************)
ValidTokens == Tokens \ {"", UninitialedTokenValue}

Sentinel == [token |-> UninitialedTokenValue, err |-> NilErr]

\* C1: as long as no set call has been made on the store, Get returns the
\* sentinel UninitialedTokenValue with a nil error, and that is what every
\* handler that has called Get holds.
C1_FreshStoreReturnsSentinel ==
    ~setCalled =>
        /\ Get(value) = Sentinel
        /\ \A p \in Handlers :
            pc[p] = "select" => token[p] = UninitialedTokenValue /\ herr[p] = NilErr

C1_Witness ==
    /\ ~setCalled
    /\ \E p \in Handlers :
        pc[p] = "select" /\ token[p] = UninitialedTokenValue /\ herr[p] = NilErr

\* C2: over any sequence of set calls, set sends on Initialized at most once,
\* and the set call that sends is one that moves the store away from the
\* sentinel.
C2_OneShotNotification ==
    /\ [](notified <= 1)
    /\ [][notified' # notified =>
            value = UninitialedTokenValue /\ res.nt # UninitialedTokenValue]_vars

\* C3: Get returns an empty value with a non-nil error exactly when the
\* stored value is empty, and the stored value with a nil error otherwise;
\* after set("") has completed Get returns a non-nil error and an empty value.
C3_GetFailsIffEmpty ==
    /\ Get(value).err # NilErr <=> value = ""
    /\ value = "" => Get(value).token = ""
    /\ value # "" => Get(value) = [token |-> value, err |-> NilErr]
    /\ (schedPc = "waiting" /\ res.nt = "") =>
            Get(value) = [token |-> "", err |-> TokenGenerationError]
    /\ \A p \in Handlers :
            (pc[p] = "failed" /\ herr[p] = TokenGenerationError) => token[p] = ""

C3_Witness ==
    /\ schedPc = "waiting"
    /\ res.nt = ""
    /\ \E p \in Handlers :
        pc[p] = "failed" /\ herr[p] = TokenGenerationError /\ token[p] = ""

\* C4: when the endpoint answered 200 with access_token T and an expires_in
\* not below the minimum, refresh has returned that expires_in with a nil
\* error and Get returns (T, nil).
C4_SuccessfulRefreshStoresToken ==
    (schedPc = "waiting" /\ resp.kind = "ok" /\ resp.expires_in >= MinimumTokenTTL) =>
        /\ res.refreshIn = resp.expires_in
        /\ res.err = NilErr
        /\ Get(value) = [token |-> resp.access_token, err |-> NilErr]

\* C5: when an acquisition has failed (request not built, transport error,
\* non-200 status, undecodable body or too-short TTL), refresh has returned a
\* non-nil error and the store is Failed: Get returns an error until the
\* next acquisition completes, whatever the store held before.
C5_FailedRefreshFailsStore ==
    /\ \A r \in Responses :
        (r.kind # "ok" \/ r.expires_in < MinimumTokenTTL) => RefreshResult(r).err # NilErr
    /\ (schedPc \in {"waiting", "inflight", "done"}
            /\ (resp.kind \in FailureKinds \/ (resp.kind = "ok" /\ resp.expires_in < MinimumTokenTTL))) =>
        /\ res.err # NilErr
        /\ value = ""
        /\ Get(value).err # NilErr

C5_Witness ==
    /\ schedPc = "waiting"
    /\ resp.kind = "status"
    /\ res.err = AuthenticationError
    /\ valueAtStart \in ValidTokens
    /\ value = ""

\* C6: an answer with expires_in below MinimumTokenTTL leaves the store
\* Failed, and an answer with expires_in equal to or above MinimumTokenTTL
\* leaves the store Valid.
C6_TTLThreshold ==
    (schedPc = "waiting" /\ resp.kind = "ok") =>
        /\ resp.expires_in < MinimumTokenTTL => value = ""
        /\ resp.expires_in >= MinimumTokenTTL => value \in ValidTokens

\* C7: a refresh signal received while the scheduler waits starts an
\* acquisition at once, whatever is left of the countdown, and when an
\* acquisition has completed the store holds its result.
C7_SignalStartsAcquisition ==
    /\ [][\A p \in Handlers :
            (schedPc = "waiting" /\ ~closed /\ pc[p] = "sendRefresh" /\ pc'[p] # "sendRefresh")
                => schedPc' = "inflight"]_vars
    /\ [](schedPc = "waiting" =>
            value = (IF resp.kind = "ok" /\ resp.expires_in >= MinimumTokenTTL
                     THEN resp.access_token ELSE ""))

C7_Witness ==
    /\ schedPc = "waiting"
    /\ trigger = "signal"
    /\ preempted
    /\ valueAtStart = "A1"
    /\ value = "A2"

\* C8: while an acquisition is in flight the write lock is free and the store
\* holds the value it held when the acquisition began, which is what a Get
\* made meanwhile returns; the value changes only in the final step of set.
C8_ReadersNotBlockedByAcquisition ==
    /\ [](schedPc = "inflight" => ~lockHeld /\ value = valueAtStart)
    /\ [][\A p \in Handlers :
            (schedPc = "inflight" /\ pc[p] = "idle" /\ pc'[p] # "idle") =>
                token'[p] = Get(valueAtStart).token /\ herr'[p] = Get(valueAtStart).err]_vars
    /\ [][value' # value => schedPc = "setWrite" /\ schedPc' = "waiting"]_vars

C8_Witness ==
    /\ schedPc = "inflight"
    /\ valueAtStart \in ValidTokens
    /\ \E p \in Handlers : pc[p] = "gotToken" /\ token[p] = valueAtStart

\* C9: while no set call is made, getTokenOrError returns no token; it
\* returns the timeout error, only when AccessorTimeout seconds have passed
\* since it began to wait, and a caller that waits does get that error.
C9_TimeoutWhenNeverInitialized ==
    /\ [](~setCalled =>
            \A p \in Handlers :
                /\ pc[p] # "gotToken"
                /\ pc[p] = "failed" => herr[p] = TimeoutError /\ waited[p] >= AccessorTimeout)
    /\ \A p \in Handlers :
            (pc[p] = "select") ~> (pc[p] = "failed" /\ herr[p] = TimeoutError)

C9_Witness ==
    /\ ~setCalled
    /\ \E p \in Handlers :
        pc[p] = "failed" /\ herr[p] = TimeoutError /\ waited[p] = AccessorTimeout

\* C10: when the first Get of getTokenOrError returns something else than
\* the sentinel, getTokenOrError returns that result in the same step: it
\* receives nothing from Initialized and does not wait.
C10_NonSentinelReturnsAtOnce ==
    [][\A p \in Handlers :
        (pc[p] = "idle" /\ pc'[p] # "idle" /\ value # UninitialedTokenValue) =>
            /\ pc'[p] = (IF Get(value).err # NilErr THEN "failed" ELSE "gotToken")
            /\ token'[p] = Get(value).token
            /\ herr'[p] = Get(value).err
            /\ initialized' = initialized
            /\ ~received'[p]
            /\ waited'[p] = 0]_vars

C10_Witness ==
    \E p \in Handlers, q \in Handlers :
        /\ pc[p] = "gotToken" /\ ~received[p] /\ token[p] \in ValidTokens
        /\ pc[q] = "failed" /\ ~received[q] /\ herr[q] = TokenGenerationError

\* C11 as stated: a caller of getTokenOrError that found the store
\* Uninitialized and received the notification of the first transition
\* returns the token with no error if that first transition was to Valid, and
\* a non-nil error if it was to Failed.
C11_FirstTransitionDecides ==
    \A p \in Handlers :
        received[p] =>
            /\ (pc[p] = "gotToken" /\ firstSet # "Uninitialized") => firstSet = "Valid"
            /\ pc[p] = "failed" => firstSet = "Failed"

\* C11, amended: such a caller returns the result of the Get it makes after
\* it received the notification, and that Get comes after the first set call
\* has written: the token with no error if the store is Valid at that Get, a
\* non-nil error if it is Failed at that Get.  That is the outcome of the
\* first transition as long as no later acquisition has been started.
C11_ReturnsFreshGet ==
    /\ [](\A p \in Handlers :
            (received[p] /\ pc[p] \in {"gotToken", "failed"}) => setCalled)
    /\ [][\A p \in Handlers :
            (pc[p] = "reGet" /\ pc'[p] # "reGet") =>
                /\ received[p]
                /\ token'[p] = Get(value).token /\ herr'[p] = Get(value).err
                /\ TokenState(value) = "Valid" =>
                        pc'[p] = "gotToken" /\ token'[p] = value /\ herr'[p] = NilErr
                /\ TokenState(value) = "Failed" =>
                        pc'[p] = "failed" /\ herr'[p] # NilErr
                /\ trigger = "start" => TokenState(value) = firstSet]_vars

C11_Witness ==
    \E p \in Handlers :
        /\ received[p]
        /\ pc[p] = "failed"
        /\ herr[p] = TokenGenerationError
        /\ firstSet = "Valid"
        /\ resp.kind \in FailureKinds

\* C12: whatever the number of callers waiting at the first transition, the
\* notification is never consumed for good: it is either in the Initialized
\* channel or with exactly one caller that is about to hand it back, so that
\* every waiting caller can receive it in turn, and a caller that received it
\* returns what Get returns after the transition, never the sentinel.
C12_NotificationHandedOn ==
    /\ \A p \in Handlers :
        pc[p] = "handBack" =>
            /\ initialized = 0
            /\ \A q \in Handlers \ {p} : pc[q] # "handBack"
    /\ (notified > 0 /\ \A p \in Handlers : pc[p] # "handBack") =>
            initialized = InitializedCap
    /\ \A p \in Handlers :
        (received[p] /\ pc[p] = "gotToken") => token[p] # UninitialedTokenValue

\* C13: a handler that requests a refresh does not wait for the scheduler:
\* its send can complete (or fail on the closed channel) in whatever state
\* the Refresher goroutine is, an acquisition in progress included.
C13_FireAndForget ==
    \A p \in Handlers :
        pc[p] = "sendRefresh" => ENABLED (SchedSignal(p) \/ HandlerPanic(p))

\* C14 as stated: from the moment the Refresh channel is closed no
\* acquisition is started and the stored value does not change.
C14_NothingAfterClose ==
    [][closed =>
        /\ value' = value
        /\ (schedPc' = "inflight" => schedPc = "inflight")]_vars

\* C14, amended: the loop ends when the select of refreshOrTimeout takes the
\* branch of the closed channel, which is after an acquisition in flight at
\* the close has completed.  Once the goroutine has returned it stays
\* returned: no acquisition is started, no set call is made, the stored
\* value does not change and Get returns the same result forever after.
C14_LoopEndsForGood ==
    /\ [](schedPc = "done" => closed /\ ~lockHeld)
    /\ [][schedPc' = "done" => schedPc = "done" \/ (schedPc = "waiting" /\ closed)]_vars
    /\ [][schedPc = "done" =>
            /\ schedPc' = "done"
            /\ value' = value
            /\ Get(value') = Get(value)
            /\ UNCHANGED <<lockHeld, notified, resp, res, trigger, closed>>]_vars

C14_Witness ==
    /\ schedPc = "done"
    /\ trigger = "timeout"
    /\ \E p \in Handlers : pc[p] = "gotToken" /\ token[p] = value /\ value \in ValidTokens
    /\ \E p \in Handlers : pc[p] = "idle"

\* C15: the Refresher goroutine returns only from the select of
\* refreshOrTimeout and only when the Refresh channel is closed; a failed
\* acquisition, whatever the number of failures before it, leaves it waiting
\* for the retry countdown of DefaultRefreshTime seconds.
C15_FailuresNeverEndLoop ==
    /\ [](schedPc = "done" => closed)
    /\ [](~closed => schedPc \in {"start", "inflight", "setLocked", "setWrite", "waiting"})
    /\ [][(schedPc # "done" /\ schedPc' = "done") => (schedPc = "waiting" /\ closed)]_vars
    /\ [][(schedPc = "setWrite" /\ schedPc' # "setWrite" /\ res.err # NilErr) =>
            (schedPc' = "waiting" /\ toc' = DefaultRefreshTime)]_vars

C15_Witness ==
    /\ ~closed
    /\ schedPc = "waiting"
    /\ trigger = "timeout"
    /\ valueAtStart = ""
    /\ resp.kind \in FailureKinds
    /\ res.err # NilErr
    /\ value = ""

\* C16: across a scheduled acquisition (started by the countdown) where the
\* previous refresh and the new one both return a nil error, readers see a
\* Valid store throughout: the first token, with a nil error, until the new
\* set call writes, and the second token from then on.
C16_NoGapAcrossScheduledRefresh ==
    /\ [][(schedPc = "inflight" /\ schedPc' = "setLocked" /\ trigger = "timeout"
                /\ res.err = NilErr /\ res'.err = NilErr) =>
            /\ TokenState(value) = "Valid"
            /\ Get(value) = [token |-> res.nt, err |-> NilErr]
            /\ value' = value]_vars
    /\ [][(schedPc = "setWrite" /\ schedPc' = "waiting" /\ trigger = "timeout"
                /\ TokenState(valueAtStart) = "Valid" /\ res.err = NilErr) =>
            /\ value = valueAtStart
            /\ TokenState(value') = "Valid"
            /\ Get(value') = [token |-> resp.access_token, err |-> NilErr]]_vars

\* C17: a status handler whose upstream request is answered 401 has written
\* 500 to its client when it sends on Refresh; while the channel is open it
\* leaves the send only by returning, in the step in which the Refresher
\* receives its signal, so that each signal received is the one send of one
\* handler call, and it never goes back to the upstream request.
C17_UnauthorizedAnsweredAndSignalled ==
    /\ [](\A p \in Handlers : pc[p] = "sendRefresh" => written[p] = StatusInternalServerError)
    /\ [][(\A p \in Handlers :
                /\ (pc[p] # "sendRefresh" /\ pc'[p] = "sendRefresh") => pc[p] = "gotToken"
                /\ (pc[p] = "sendRefresh" /\ pc'[p] # "sendRefresh") =>
                        /\ pc'[p] = "idle"
                        /\ closed \/ (schedPc = "waiting" /\ schedPc' = "inflight"
                                        /\ trigger' = "signal")
                        /\ \A q \in Handlers \ {p} : pc'[q] = pc[q])
           /\ ((schedPc = "waiting" /\ schedPc' = "inflight" /\ trigger' = "signal") =>
                    \E r \in Handlers : pc[r] = "sendRefresh" /\ pc'[r] = "idle")]_vars

C17_Witness ==
    /\ ~closed
    /\ schedPc = "inflight"
    /\ trigger = "signal"
    /\ \E p \in Handlers, q \in Handlers :
        /\ pc[p] = "idle"
        /\ pc[q] = "sendRefresh"
        /\ written[q] = StatusInternalServerError

\* C18: once main has configured the program, every option given on the
\* command line has the value given there, and every option not given there
\* whose TYRO_ environment variable is non-empty has the value of that
\* variable, the log level included.
C18_EnvironmentFillsUnsetOptions ==
    config.mainPc = "configured" =>
        \A f \in FlagNames :
            /\ config.commandLine[f] # NotSet =>
                    EffectiveOption(f) = MeaningOf(f, config.commandLine[f])
            /\ (config.commandLine[f] = NotSet /\ config.environment[f] # "") =>
                    EffectiveOption(f) = MeaningOf(f, config.environment[f])

C20_NewServesAtMostNewLimit ==
    newItems.newPc = "served" => Cardinality(newItems.served) <= newItems.newLimit

\* C21: the Refresher goroutine begins with an acquisition: its first step is
\* always possible and sends the first request, with no countdown scheduled
\* and no refresh signal received before it, and until the first set call
\* the acquisition under way is that first one.
C21_FirstAcquisitionAtOnce ==
    /\ schedPc = "start" => (ENABLED SchedStart) /\ trigger = "none" /\ ~setCalled
    /\ trigger = "none" <=> schedPc = "start"
    /\ (~setCalled /\ schedPc # "start") =>
            /\ schedPc \in {"inflight", "setLocked", "setWrite"}
            /\ trigger = "start"
            /\ ~preempted
            /\ toc = 0
            /\ schedPc = "inflight" => resp = NoResponse
            /\ \A p \in Handlers : pc[p] \notin {"gotToken", "sendRefresh"}

C21_Witness ==
    /\ schedPc = "inflight"
    /\ trigger = "start"
    /\ resp = NoResponse
    /\ ~setCalled
    /\ \A p \in Handlers : pc[p] = "idle"

\* The countdown the scheduler is to set up after the endpoint's answer r.
ExpectedCountdown(r) ==
    IF r.kind = "ok" /\ r.expires_in >= MinimumTokenTTL
    THEN Max(r.expires_in - TokenRefreshBuffer, 0)
    ELSE DefaultRefreshTime

\* C22: when an acquisition is over, the scheduler sets its countdown to
\* max(ttl - TokenRefreshBuffer, 0) seconds if the endpoint gave a token with
\* an acceptable TTL ttl and to DefaultRefreshTime seconds if the acquisition
\* failed, and a countdown is set up at no other moment.
C22_NextCountdown ==
    /\ [](\A r \in Responses :
            FutureTime(RefreshResult(r).refreshIn, RefreshResult(r).err) = ExpectedCountdown(r))
    /\ [][/\ (schedPc = "setWrite" /\ schedPc' # "setWrite") =>
                (schedPc' = "waiting" /\ toc' = ExpectedCountdown(resp))
          /\ toc' > toc => (schedPc = "setWrite" /\ schedPc' = "waiting")]_vars

C22_Witness ==
    /\ schedPc = "waiting"
    /\ trigger = "timeout"
    /\ valueAtStart = ""
    /\ resp.kind = "ok"
    /\ resp.expires_in = MinimumTokenTTL
    /\ res.err = NilErr
    /\ toc = MinimumTokenTTL - TokenRefreshBuffer

\* The handlers whose send on Refresh completes in this step.
Released == {p \in Handlers : pc[p] = "sendRefresh" /\ pc'[p] # "sendRefresh"}

\* C23: every acquisition after the first is started from the select of
\* refreshOrTimeout by exactly one event: the countdown set up after the last
\* acquisition having run down, with no signal received in that step, or the
\* signal of exactly one handler.  While an acquisition is under way nothing
\* starts another one, the countdown abandoned by a signal included, which is
\* replaced when the acquisition is over; the countdown changes only by being
\* set up at the end of an acquisition and by the passing of time.
C23_OneEventPerAcquisition ==
    [][/\ (schedPc # "inflight" /\ schedPc' = "inflight") =>
            /\ schedPc \in {"start", "waiting"}
            /\ schedPc = "start" => trigger' = "start"
            /\ schedPc = "waiting" =>
                \/ trigger' = "timeout" /\ toc = 0 /\ Released = {}
                \/ trigger' = "signal" /\ ~closed /\ Cardinality(Released) = 1
                        /\ preempted' = (toc > 0)
       /\ schedPc = "inflight" =>
            /\ schedPc' \in {"inflight", "setLocked"}
            /\ trigger' = trigger /\ preempted' = preempted /\ valueAtStart' = valueAtStart
       /\ schedPc \in {"setLocked", "setWrite"} =>
            /\ schedPc' \in {"setLocked", "setWrite", "waiting"}
            /\ trigger' = trigger /\ preempted' = preempted
       /\ toc' # toc =>
            \/ schedPc = "setWrite" /\ schedPc' = "waiting"
            \/ schedPc' = schedPc /\ toc' = Max(toc - TickSeconds, 0)]_vars

C23_Witness ==
    /\ schedPc = "inflight"
    /\ trigger = "signal"
    /\ preempted
    /\ toc = 0
    /\ ~closed

\* C24: a failed acquisition leaves the goroutine waiting for a countdown of
\* DefaultRefreshTime seconds; with no signal received it starts the next
\* acquisition when, and only when, that countdown has run down, and when
\* that acquisition succeeds the store is given the new token: it is not
\* Failed any more and Get returns the new token with a nil error.
C24_RetryAfterFailure ==
    /\ [][(schedPc = "setWrite" /\ schedPc' # "setWrite" /\ res.err # NilErr) =>
            (schedPc' = "waiting" /\ toc' = DefaultRefreshTime)]_vars
    /\ []((schedPc = "waiting" /\ toc = 0) => ENABLED SchedTimeout)
    /\ [][(schedPc = "waiting" /\ schedPc' = "inflight" /\ Released = {}) =>
            (toc = 0 /\ trigger' = "timeout")]_vars
    /\ [](schedPc = "waiting" => value = res.nt)
    /\ [][(schedPc = "inflight" /\ schedPc' = "setLocked" /\ trigger = "timeout"
                /\ res.err # NilErr /\ res'.err = NilErr) =>
            /\ TokenState(res'.nt) # "Failed"
            /\ Get(res'.nt) = [token |-> resp'.access_token, err |-> NilErr]]_vars

\* The Refresher goroutine is inside runRefreshSetUpNext: the request of an
\* acquisition has left and refresh has not returned yet.
Acquiring == schedPc \in {"inflight", "setLocked", "setWrite"}

\* C25: while an acquisition is under way no step of the Refresher can start
\* another one: not its first step, not the countdown having run down, and
\* not the signal of any handler, however many handlers are sending.
C25_OneAcquisitionInFlight ==
    Acquiring =>
        /\ ~ENABLED SchedStart
        /\ ~ENABLED SchedTimeout
        /\ \A p \in Handlers : ~ENABLED SchedSignal(p)

C25_Witness ==
    /\ schedPc = "inflight"
    /\ ~closed
    /\ toc = 0
    /\ \E p \in Handlers, q \in Handlers :
        p # q /\ pc[p] = "sendRefresh" /\ pc[q] = "sendRefresh"

\* C26: a set call that holds the write lock can always go on: its send on
\* Initialized, when it makes one, finds room in the channel whether or not
\* anyone has received from it, so that the call writes the value and
\* releases the lock.
C26_SetNeverBlocks ==
    /\ schedPc = "setLocked" => lockHeld /\ ENABLED SetNotify
    /\ schedPc = "setWrite" => lockHeld /\ ENABLED SetWrite
    /\ lockHeld => schedPc \in {"setLocked", "setWrite"}

\* The paths whose handlers call setACAOHeader.
ACAOPaths == {"/status/bib/", "/status/item/", "/new"}

\* The configured origins: the trimmed, non-empty parts of the configuration.
ConfiguredOrigins(headerConfig) ==
    {TrimSpace(headerConfig[i]) : i \in 1..Len(headerConfig)} \ {""}

\* C27: setACAOHeader sets Access-Control-Allow-Origin to "*" when the
\* configuration is "*", sets nothing when the configuration is empty, and
\* otherwise sets it to the Origin of the request if that Origin is one of
\* the configured origins and sets nothing if it is not; so it does for every
\* configuration and Origin, and in every response of a handler that calls it.
C27_SetACAOHeader ==
    /\ \A h \in HeaderConfigs, o \in Origins :
        setACAOHeader(h, o) =
            (IF h = <<"*">> THEN "*"
             ELSE IF h = <<"">> THEN NoHeader
             ELSE IF o \in ConfiguredOrigins(h) THEN o
             ELSE NoHeader)
    /\ acao.reqPath \in ACAOPaths =>
        /\ acao.headerACAO = <<"*">> => acao.respACAO = "*"
        /\ acao.headerACAO = <<"">> => acao.respACAO = NoHeader
        /\ acao.headerACAO # <<"*">> =>
            /\ acao.respACAO \in {acao.reqOrigin, NoHeader}
            /\ acao.respACAO = acao.reqOrigin <=>
                    acao.reqOrigin \in ConfiguredOrigins(acao.headerACAO)

C27_Witness ==
    /\ acao.reqPath = "/status/item/"
    /\ acao.headerACAO = <<"", " http://a">>
    /\ acao.reqOrigin = "http://a"
    /\ acao.respACAO = "http://a"

\* The addresses net.SplitHostPort splits into host and port.
SplittableAddrs == {"7.7.7.7:8888", "[::1]:80", ":8888"}

\* C28: SetAuthorizationHeaders adds Authorization "Bearer <token>" and
\* User-Agent "Tyro" to the outgoing request in every case; X-Forwarded-For
\* is the value of the incoming request when it has one, else the host part
\* of RemoteAddr, and stays unset, with an error returned, when RemoteAddr
\* cannot be split; so it is for every input, and in the request that
\* statusBibHandler has built for the upstream API.
C28_SetAuthorizationHeaders ==
    /\ \A x \in ForwardedFors, a \in RemoteAddrs, tk \in Tokens :
        LET set == SetAuthorizationHeaders(NoHeaders, [forwardedFor |-> x, remoteAddr |-> a], tk)
        IN  /\ set.header.Authorization = <<"Bearer " \o tk>>
            /\ set.header.UserAgent = <<"Tyro">>
            /\ x # "" => set.header.XForwardedFor = <<x>> /\ set.err = NilErr
            /\ (x = "" /\ a \in SplittableAddrs) =>
                    set.header.XForwardedFor = <<SplitHostPort(a).host>> /\ set.err = NilErr
            /\ (x = "" /\ a \notin SplittableAddrs) =>
                    set.header.XForwardedFor = <<>> /\ set.err # NilErr
    /\ bibCall.bibPc = "headersSet" \/ bibCall.upstreamRequests > 0 =>
        /\ bibCall.nrHeader.Authorization = <<"Bearer " \o bibCall.token>>
        /\ bibCall.nrHeader.UserAgent = <<"Tyro">>
        /\ bibCall.forwardedFor # "" =>
                bibCall.nrHeader.XForwardedFor = <<bibCall.forwardedFor>>
        /\ (bibCall.forwardedFor = "" /\ bibCall.remoteAddr = "7.7.7.7:8888") =>
                bibCall.nrHeader.XForwardedFor = <<"7.7.7.7">>
        /\ (bibCall.forwardedFor = "" /\ bibCall.remoteAddr \notin SplittableAddrs) =>
                bibCall.nrHeader.XForwardedFor = <<>> /\ bibCall.setErr # NilErr

C28_Witness ==
    /\ bibCall.bibPc = "headersSet"
    /\ bibCall.forwardedFor = ""
    /\ bibCall.remoteAddr = ":wef:wf:"
    /\ bibCall.token = "A1"
    /\ bibCall.nrHeader =
        [Authorization |-> <<"Bearer A1">>, UserAgent |-> <<"Tyro">>, XForwardedFor |-> <<>>]
    /\ bibCall.setErr = TooManyColonsError

\* C29: when getTokenOrError has returned a token, statusBibHandler serving
\* a path with no BibID after "/status/bib/" sends nothing to the upstream
\* API, and when it has returned it has answered 400 Bad Request.
C29_NoBibIDIsBadRequest ==
    (bibCall.bibPc \notin {"not modelled", "start"} /\ bibCall.err = NilErr
            /\ FirstSegment(bibCall.rest) = <<>>) =>
        /\ bibCall.bibPc \in {"haveToken", "returned"}
        /\ bibCall.upstreamRequests = 0
        /\ bibCall.nrHeader = NoHeaders
        /\ bibCall.bibPc = "returned" => bibCall.status = StatusBadRequest

C29_Witness ==
    /\ bibCall.bibPc = "returned"
    /\ bibCall.rest = <<"/", "1">>
    /\ bibCall.token = "A1"
    /\ bibCall.status = StatusBadRequest
    /\ bibCall.upstreamRequests = 0

\* C30: the Initialized channel holds at most one notification, and a caller
\* of getTokenOrError that has received the notification can always send it
\* back at once: the channel has room for it whatever set calls and other
\* callers have done meanwhile.
C30_HandBackNeverBlocks ==
    /\ initialized <= 1
    /\ \A p \in Handlers : pc[p] = "handBack" => ENABLED AccessorHandBack(p)

\* C31: a caller of getTokenOrError that has received the notification reads
\* the store only after the set call that notified has written: while set
\* holds the write lock the second Get cannot proceed, and what the caller
\* then holds is never the sentinel.
C31_ReReadSeesTransition ==
    \A p \in Handlers :
        /\ pc[p] \in {"handBack", "reGet"} => (lockHeld \/ setCalled)
        /\ (pc[p] = "reGet" /\ lockHeld) => ~ENABLED AccessorReGet(p)
        /\ (received[p] /\ pc[p] \in {"gotToken", "failed"}) =>
                (setCalled /\ token[p] # UninitialedTokenValue)

\* C32: every countdown the scheduler sets up is strictly positive: at least
\* MinimumTokenTTL - TokenRefreshBuffer seconds after a successful
\* acquisition and DefaultRefreshTime seconds after a failed one; and as long
\* as the countdown has not run down it starts no acquisition.
C32_CountdownPositive ==
    /\ [](\A r \in Responses :
            LET result == RefreshResult(r)
                futureTime == FutureTime(result.refreshIn, result.err)
            IN  /\ futureTime > 0
                /\ result.err = NilErr => futureTime >= MinimumTokenTTL - TokenRefreshBuffer
                /\ result.err # NilErr => futureTime = DefaultRefreshTime)
    /\ [][(schedPc = "setWrite" /\ schedPc' # "setWrite") =>
            /\ toc' > 0
            /\ res.err = NilErr => toc' >= MinimumTokenTTL - TokenRefreshBuffer
            /\ res.err # NilErr => toc' = DefaultRefreshTime]_vars
    /\ []((schedPc = "waiting" /\ toc > 0) => ~ENABLED SchedTimeout)

C32_Witness ==
    /\ schedPc = "waiting"
    /\ trigger = "signal"
    /\ resp.kind = "ok"
    /\ resp.expires_in = MinimumTokenTTL
    /\ value \in ValidTokens
    /\ toc = MinimumTokenTTL - TokenRefreshBuffer

\* C33: while the Refresh channel is open, a send on it completes only in a
\* step in which the Refresher receives it and starts an acquisition for it,
\* and that step completes the send of no other handler: the signals of the
\* other handlers stay pending, each for an acquisition of its own, which
\* can start only when this one is over.
C33_SignalsNotCoalesced ==
    /\ [][~closed =>
            \A p \in Handlers :
                (pc[p] = "sendRefresh" /\ pc'[p] # "sendRefresh") =>
                    /\ schedPc = "waiting" /\ schedPc' = "inflight" /\ trigger' = "signal"
                    /\ \A q \in Handlers \ {p} :
                            pc[q] = "sendRefresh" => pc'[q] = "sendRefresh"]_vars
    /\ [](\A p \in Handlers :
            (pc[p] = "sendRefresh" /\ ~closed) =>
                (ENABLED SchedSignal(p) <=> schedPc = "waiting"))

C33_Witness ==
    /\ ~closed
    /\ schedPc = "waiting"
    /\ trigger = "signal"
    /\ value \in ValidTokens
    /\ \E p \in Handlers, q \in Handlers :
        p # q /\ pc[p] = "idle" /\ pc[q] = "sendRefresh"

C35_NeverBackToUninitialized ==
    /\ setCalled => TokenState(value) # "Uninitialized"
    /\ (setCalled /\ ~lockHeld) => Get(value).token # UninitialedTokenValue

\* C36: no request is sent to the upstream API with the sentinel or an empty
\* token as its bearer token: a status handler that has come to its upstream
\* request holds a token of a Valid store, and the request the /raw/ proxy
\* sends on carries one Authorization value, "Bearer " and such a token.
C36_NoSentinelOrEmptyBearer ==
    /\ \A p \in Handlers : pc[p] = "gotToken" => token[p] \in ValidTokens
    /\ rawCall.rawPc = "sent" =>
            \E tk \in ValidTokens : rawCall.header.Authorization = <<"Bearer " \o tk>>

\* C37: getTokenOrError returns a non-nil error exactly when it has written a
\* 500 response, and writes at most one response per call: while it runs it
\* has written nothing, once it has written it only returns; with a nil error
\* it has written nothing and its token is neither empty nor the sentinel.
C37_ErrorIffWritten ==
    /\ [](\A p \in Handlers :
            /\ pc[p] = "failed" =>
                    (herr[p] # NilErr /\ written[p] = StatusInternalServerError)
            /\ pc[p] \in {"select", "handBack", "reGet"} =>
                    (herr[p] = NilErr /\ written[p] = NothingWritten)
            /\ pc[p] = "gotToken" =>
                    /\ herr[p] = NilErr
                    /\ written[p] = NothingWritten
                    /\ token[p] # ""
                    /\ token[p] # UninitialedTokenValue)
    /\ [][\A p \in Handlers :
            (pc[p] \in {"select", "handBack", "reGet", "failed"}
                    /\ written[p] # NothingWritten) =>
                (pc'[p] = "idle" \/ (pc'[p] = pc[p] /\ written'[p] = written[p]))]_vars

\* C39: getNewItems terminates: when every upstream request is answered
\* successfully, whatever the totals of the windows, a /new request that has
\* called getNewItems is in the end answered.
C39_GetNewItemsTerminates ==
    (newItems.newPc = "count") ~> (newItems.newPc = "done")

\* C40: when the upstream API answers 401 to the request for the records,
\* getNewItems returns a non-nil error after one send on Refresh, and
\* newBibsHandler writes the 500 response and nothing else.
C40_UnauthorizedListReturnsError ==
    (newItems.newPc \in {"returned", "done"}
            /\ newItems.listOutcome = StatusUnauthorized) =>
        /\ newItems.err # NilErr
        /\ newItems.refreshSent = 1
        /\ newItems.writes = <<StatusInternalServerError>>

====
